---- MODULE Spec2Model ----
(***************************************************************************)
(* Streaming frame decoder of the mmWave people counter:                   *)
(* RadarDataProcessor.process_frame (src/src/radar_data_processor.py).     *)
(*                                                                         *)
(* The decoder state is the byte accumulator (byteBuffer,                  *)
(* byteBufferLength) and the occupancy tracker (count_entered, count_exit, *)
(* temp).  process_frame reads and writes them as module globals (line 86  *)
(* and the uses of temp), while __init__ stores its values in attributes   *)
(* (self.byte_buffer, ...) that process_frame never reads, and nothing in  *)
(* the module binds the globals: after RadarDataProcessor() they are       *)
(* unbound (bound = FALSE) and every call of process_frame reads the port  *)
(* and then raises NameError at line 114.  The module-level state the      *)
(* globals name is bound, if at all, by the program that loads the         *)
(* module: the action BindGlobals gives the five names the values          *)
(* __init__ gives the attributes that stand for them.  While bound is      *)
(* FALSE the five variables hold those same values and no call reads or    *)
(* writes them.  The action Ingest is one call of process_frame on the     *)
(* bytes the data port has waiting.                                        *)
(*                                                                         *)
(* Representation.  The numpy array byteBuffer has maxBufferSize cells.    *)
(* The model keeps its written prefix as a sequence; every cell at or      *)
(* beyond Len(byteBuffer) is zero (np.zeros at line 13, the zero fills at  *)
(* lines 137 and 335).  Offsets are 0-based as in the source; At(buf, i)   *)
(* is byteBuffer[i].  A 32-bit float is kept as its IEEE-754 bit pattern   *)
(* and compared through its sign, exponent and mantissa bits.  Unsigned    *)
(* 32-bit fields are kept as integers; the streams of the model keep them  *)
(* below 2^31.                                                             *)
(***************************************************************************)
EXTENDS Integers, Sequences, FiniteSets, TLC

(***************************************************************************)
(* Program constants (process_frame, lines 89-98).                         *)
(***************************************************************************)
maxBufferSize == 32768
MMWDEMO_UART_MSG_POINT_CLOUD_2D == 6
MMWDEMO_UART_MSG_TARGET_LIST_2D == 7
MMWDEMO_UART_MSG_TARGET_INDEX_2D == 8
tlvHeaderLengthInBytes == 8
pointLengthInBytes == 16
targetLengthInBytes == 68
magicWord == <<2, 1, 4, 3, 6, 5, 8, 7>>
\* byteBufferLength > 16, line 119
minSearchLength == 16
\* frameNumber % 20, line 305
windowFrames == 20
\* temp = {i: [] for i in range(7)}, line 18
numTempKeys == 7
\* offset of totalPacketLen in the header, line 149
totalPacketLenOffset == 20
\* idX after the header has been read, lines 165-193
headerLengthInBytes == 52

Min(a, b) == IF a < b THEN a ELSE b
Max(a, b) == IF a > b THEN a ELSE b

(***************************************************************************)
(* Reading the numpy array.                                                *)
(***************************************************************************)
\* byteBuffer[i] for 0 <= i < maxBufferSize
At(buf, i) == IF i < Len(buf) THEN buf[i + 1] ELSE 0

\* len(byteBuffer[i:i+n]): a slice is cut at the end of the array
SliceLen(i, n) == Max(0, Min(i + n, maxBufferSize) - Max(0, i))

\* np.matmul(byteBuffer[i:i+4], [1, 2**8, 2**16, 2**24])
U32(buf, i) ==
    At(buf, i) + 256 * At(buf, i + 1) + 65536 * At(buf, i + 2)
        + 16777216 * At(buf, i + 3)

\* np.matmul(byteBuffer[i:i+2], [1, 2**8])
U16(buf, i) == At(buf, i) + 256 * At(buf, i + 1)

\* byteBuffer[i:i+4].view(dtype=np.float32): the float as its sign bit and
\* the 31 bits of exponent and mantissa
F32(buf, i) ==
    [neg |-> At(buf, i + 3) \div 128,
     mag |-> At(buf, i) + 256 * At(buf, i + 1) + 65536 * At(buf, i + 2)
                + 16777216 * (At(buf, i + 3) % 128)]

(***************************************************************************)
(* float32 comparisons on bit patterns (0x7F800000 is infinity, above it   *)
(* NaN; 0x3F000000 is 0.5).                                                *)
(***************************************************************************)
F32IsNaN(w) == w.mag > 2139095040
\* x < 0 (false for -0.0 and for NaN)
F32Negative(w) == w.neg = 1 /\ w.mag # 0 /\ ~F32IsNaN(w)
\* -0.5 <= x <= 0.5, line 303
InBand(w) == w.mag <= 1056964608
\* np.sign(x) >= 0, line 306
SignNonNeg(w) == ~F32Negative(w) /\ ~F32IsNaN(w)

(***************************************************************************)
(* Occupancy tracker, lines 302-315.                                       *)
(***************************************************************************)
\* np.where(np.diff(np.sign(temp[id]) >= 0))[0], as 1-based positions:
\* position k is site k-1, and temp[id][site] is hist[k]
ZeroCrossingSites(hist) ==
    {k \in 1..(Len(hist) - 1) : SignNonNeg(hist[k]) # SignNonNeg(hist[k + 1])}

\* the first element of an ascending numpy index array
SetMin(S) == CHOOSE x \in S : \A y \in S : x <= y

\* faulty variant of CrossingSampleNegative: the sample after the crossing decides
CrossingSampleAfter(hist, sites) == F32Negative(hist[SetMin(sites) + 1])

\* line 308: temp[targetId[i]][zero_crossing_site[0]] < 0
CrossingSampleNegative(hist, sites) == F32Negative(hist[SetMin(sites)])

\* tr = [temp, count_entered, count_exit, raised]; the loop over
\* range(len(targetId)) from index i on, with its two break statements
RECURSIVE TrackerLoop(_, _, _, _)
TrackerLoop(targets, i, frameNumber, tr) ==
    IF i > Len(targets) THEN tr
    ELSE
      LET id == targets[i].targetId
          x == targets[i].posX
      IN  IF ~InBand(x) THEN TrackerLoop(targets, i + 1, frameNumber, tr)
          ELSE IF id \notin DOMAIN tr.temp
          THEN [tr EXCEPT !.raised = "KeyError"]
          ELSE
            LET hist == Append(tr.temp[id], x)
                kept == [tr EXCEPT !.temp[id] = hist]
                sites == ZeroCrossingSites(hist)
            IN  IF frameNumber % windowFrames # 0 \/ sites = {}
                THEN TrackerLoop(targets, i + 1, frameNumber, kept)
                ELSE IF CrossingSampleNegative(hist, sites)
                THEN [tr EXCEPT !.temp[id] = <<>>,
                                !.count_entered = tr.count_entered + 1]
                ELSE [tr EXCEPT !.temp[id] = <<>>,
                                !.count_exit = tr.count_exit + 1]

(***************************************************************************)
(* TLV records, lines 196-329.                                             *)
(***************************************************************************)
\* pointObj = {} and targetObj = {} (lines 105-106)
EmptyPointObj ==
    [numObj |-> 0, range |-> <<>>, azimuth |-> <<>>, doppler |-> <<>>,
     snr |-> <<>>]
EmptyTargetObj ==
    [frameNumber |-> 0, target_ID |-> <<>>, posX |-> <<>>, posY |-> <<>>,
     velX |-> <<>>, velY |-> <<>>, Num_Targets |-> 0, Ppl_entered |-> 0,
     Ppl_exited |-> 0]

\* faulty variant of ReadPoints: range and azimuth are read from each
\* other's offset
ReadPointsSwapped(buf, idX, num) ==
    [numObj |-> num,
     range |->
        [k \in 1..num |-> F32(buf, idX + pointLengthInBytes * (k - 1) + 4)],
     azimuth |-> [k \in 1..num |-> F32(buf, idX + pointLengthInBytes * (k - 1))],
     doppler |->
        [k \in 1..num |-> F32(buf, idX + pointLengthInBytes * (k - 1) + 8)],
     snr |->
        [k \in 1..num |-> F32(buf, idX + pointLengthInBytes * (k - 1) + 12)]]

\* lines 226-239: the points of a PointCloud record that starts at idX
ReadPoints(buf, idX, num) ==
    [numObj |-> num,
     range |-> [k \in 1..num |-> F32(buf, idX + pointLengthInBytes * (k - 1))],
     azimuth |->
        [k \in 1..num |-> F32(buf, idX + pointLengthInBytes * (k - 1) + 4)],
     doppler |->
        [k \in 1..num |-> F32(buf, idX + pointLengthInBytes * (k - 1) + 8)],
     snr |->
        [k \in 1..num |-> F32(buf, idX + pointLengthInBytes * (k - 1) + 12)]]

\* lines 263-298: the targets of a TargetList record that starts at idX
\* (accX, accY, EC and G are read and dropped)
ReadTargets(buf, idX, num) ==
    [k \in 1..num |->
        LET o == idX + targetLengthInBytes * (k - 1)
        IN  [targetId |-> U32(buf, o), posX |-> F32(buf, o + 4),
             posY |-> F32(buf, o + 8), velX |-> F32(buf, o + 12),
             velY |-> F32(buf, o + 16)]]

\* lines 203-210: the sub-header read inside try/except.  A 4-byte read
\* that reaches past the end of the array fails in np.matmul and is
\* swallowed: the assignments before it stand, the rest is skipped.
ReadTlvHeader(buf, ts) ==
    IF SliceLen(ts.idX, 4) < 4
    THEN [ts EXCEPT !.tlv_type = 0]
    ELSE IF SliceLen(ts.idX + 4, 4) < 4
    THEN [ts EXCEPT !.tlv_type = U32(buf, ts.idX), !.idX = ts.idX + 4]
    ELSE [ts EXCEPT !.tlv_type = U32(buf, ts.idX),
                    !.tlv_length = U32(buf, ts.idX + 4),
                    !.tlv_bound = TRUE,
                    !.idX = ts.idX + 8]

\* lines 213-241
PointCloudTlv(buf, ts) ==
    LET num == (ts.tlv_length - tlvHeaderLengthInBytes) \div pointLengthInBytes
    IN  IF num < 0 \/ SliceLen(ts.idX, pointLengthInBytes * num)
                        < pointLengthInBytes * num
        THEN [ts EXCEPT !.raised = "ValueError"]
        ELSE [ts EXCEPT !.pointObj = ReadPoints(buf, ts.idX, num),
                        !.idX = ts.idX + pointLengthInBytes * num,
                        !.dataOK = 1]

\* lines 299-323: the record's result once its targets are read and the
\* tracker loop has run (tr)
TargetListResult(ts, frameNumber, num, targets, tr) ==
    [ts EXCEPT
        !.idX = ts.idX + targetLengthInBytes * num,
        !.temp = tr.temp,
        !.count_entered = tr.count_entered,
        !.count_exit = tr.count_exit,
        !.raised = tr.raised,
        !.targetObj =
            IF tr.raised # "none" THEN ts.targetObj
            ELSE [frameNumber |-> frameNumber,
                  target_ID |-> [k \in 1..num |-> targets[k].targetId],
                  posX |-> [k \in 1..num |-> targets[k].posX],
                  posY |-> [k \in 1..num |-> targets[k].posY],
                  velX |-> [k \in 1..num |-> targets[k].velX],
                  velY |-> [k \in 1..num |-> targets[k].velY],
                  Num_Targets |-> num,
                  Ppl_entered |-> tr.count_entered,
                  Ppl_exited |-> tr.count_exit],
        !.targetDetected = IF tr.raised # "none" THEN ts.targetDetected ELSE 1]

\* lines 302-315 on the targets read
TargetListTracked(ts, frameNumber, num, targets) ==
    TargetListResult(ts, frameNumber, num, targets,
        TrackerLoop(targets, 1, frameNumber,
            [temp |-> ts.temp, count_entered |-> ts.count_entered,
             count_exit |-> ts.count_exit, raised |-> "none"]))

\* lines 243-323
TargetListTlv(buf, frameNumber, ts) ==
    LET num == (ts.tlv_length - tlvHeaderLengthInBytes) \div targetLengthInBytes
    IN  IF num < 0 \/ SliceLen(ts.idX, targetLengthInBytes * num)
                        < targetLengthInBytes * num
        THEN [ts EXCEPT !.raised = "ValueError"]
        ELSE TargetListTracked(ts, frameNumber, num,
                ReadTargets(buf, ts.idX, num))

\* lines 325-329
TargetIndexTlv(ts) ==
    [ts EXCEPT !.idX = ts.idX + (ts.tlv_length - tlvHeaderLengthInBytes)]

\* lines 213-329: the record that follows the sub-header read into h
TlvDispatch(buf, frameNumber, h) ==
    IF h.tlv_type \notin {MMWDEMO_UART_MSG_POINT_CLOUD_2D,
                          MMWDEMO_UART_MSG_TARGET_LIST_2D,
                          MMWDEMO_UART_MSG_TARGET_INDEX_2D}
    THEN h
    ELSE IF ~h.tlv_bound
    THEN [h EXCEPT !.raised = "UnboundLocalError"]
    ELSE IF h.tlv_type = MMWDEMO_UART_MSG_POINT_CLOUD_2D
    THEN PointCloudTlv(buf, h)
    ELSE IF h.tlv_type = MMWDEMO_UART_MSG_TARGET_LIST_2D
    THEN TargetListTlv(buf, frameNumber, h)
    ELSE TargetIndexTlv(h)

\* tlvLog notes, for each record read without an exception, its type, the
\* length in force and the cursor before (start) and after it
LogTlv(tlvLog, start, t) ==
    IF t.raised # "none" THEN t
    ELSE [t EXCEPT !.tlvLog =
            Append(tlvLog, [type |-> t.tlv_type, length |-> t.tlv_length,
                            start |-> start, end |-> t.idX])]

\* one iteration of the loop at line 196.  tlv_length is a local that is
\* unbound (tlv_bound = FALSE) until a sub-header read has assigned it.
TlvStep(buf, frameNumber, ts) ==
    LogTlv(ts.tlvLog, ts.idX,
        TlvDispatch(buf, frameNumber, ReadTlvHeader(buf, ts)))

\* for tlvIdx in range(numTLVs), left by an exception
RECURSIVE TlvLoop(_, _, _, _)
TlvLoop(buf, frameNumber, remaining, ts) ==
    IF remaining = 0 \/ ts.raised # "none" THEN ts
    ELSE TlvLoop(buf, frameNumber, remaining - 1, TlvStep(buf, frameNumber, ts))

(***************************************************************************)
(* process_frame, lines 84-343.                                            *)
(***************************************************************************)
\* faulty variant of AppendChunk: the part of the chunk that fits is stored
AppendChunkClipped(buf, len, byteVec) ==
    LET fit == Min(Len(byteVec), Max(0, maxBufferSize - 1 - len))
    IN  [buf |-> SubSeq(buf, 1, len) \o SubSeq(byteVec, 1, fit),
         len |-> len + fit]

\* lines 113-116: the chunk is stored only if it leaves the buffer below
\* maxBufferSize; otherwise nothing of it is stored
AppendChunk(buf, len, byteVec) ==
    IF len + Len(byteVec) < maxBufferSize
    THEN [buf |-> SubSeq(buf, 1, len) \o byteVec, len |-> len + Len(byteVec)]
    ELSE [buf |-> buf, len |-> len]

\* line 122: np.where(byteBuffer == magicWord[0])[0]
PossibleLocs(buf) == {loc \in 0..(Len(buf) - 1) : buf[loc + 1] = magicWord[1]}

\* faulty variant of StartIdx: the first marker byte alone marks a frame start
StartIdxUnverified(buf) == PossibleLocs(buf)

\* lines 125-129: the offsets at which all 8 marker bytes match
StartIdx(buf) ==
    {loc \in PossibleLocs(buf) :
        /\ SliceLen(loc, 8) = 8
        /\ \A j \in 1..8 : At(buf, loc + j - 1) = magicWord[j]}

\* line 128 on a candidate in the last 7 cells of the array: the slice is
\* shorter than the marker, and the comparison of unequal shapes is False
\* in numpy < 1.25 and a ValueError from numpy 1.25 on
ShortCandidate(buf) ==
    \E loc \in (maxBufferSize - 7)..(maxBufferSize - 1) :
        At(buf, loc) = magicWord[1]

\* lines 134-143: drop the bytes before the first marker
DiscardBefore(buf, len, startIdx) ==
    IF startIdx > 0 /\ startIdx < len
    THEN [buf |-> SubSeq(buf, startIdx + 1, len), len |-> len - startIdx]
    ELSE [buf |-> buf, len |-> len]

\* faulty variant of Consume: the bytes are shifted and the length reduced,
\* but the cells the shift vacates keep what they held
ConsumeStale(buf, len, shiftSize) ==
    [buf |-> SubSeq(buf, shiftSize + 1, len)
                \o SubSeq(buf, Max(0, len - shiftSize) + 1, len),
     len |-> Max(0, len - shiftSize)]

\* faulty variant of Consume: the whole buffer is dropped with the frame
ConsumeAll(buf, len, shiftSize) == [buf |-> <<>>, len |-> 0]

\* lines 331-341: drop the frame that was read
Consume(buf, len, shiftSize) ==
    [buf |-> SubSeq(buf, shiftSize + 1, len), len |-> Max(0, len - shiftSize)]

\* lines 148-153
MagicOK(buf, len) ==
    len >= U32(buf, totalPacketLenOffset) /\ len # 0

\* the value process_frame returns when nothing was decoded
NoReturn ==
    [dataOK |-> 0, targetDetected |-> 0, frameNumber |-> 0,
     targetObj |-> EmptyTargetObj, pointObj |-> EmptyPointObj]

\* a call that ends at line 343 with nothing decoded
NoData(buf, len, tracker, discarded) ==
    [byteBuffer |-> buf, byteBufferLength |-> len, temp |-> tracker.temp,
     count_entered |-> tracker.count_entered,
     count_exit |-> tracker.count_exit,
     raised |-> "none", magicOK |-> 0, ret |-> NoReturn,
     discarded |-> discarded, idX |-> 0, totalPacketLen |-> 0, numTLVs |-> 0,
     tlvLog |-> <<>>]

\* lines 331-343: the end of a call that read the TLV records (ts)
DecodeResult(buf, len, discarded, totalPacketLen, frameNumber, numTLVs, ts) ==
    [byteBuffer |->
        IF ts.raised = "none" /\ ts.idX > 0
        THEN Consume(buf, len, totalPacketLen).buf ELSE buf,
     byteBufferLength |->
        IF ts.raised = "none" /\ ts.idX > 0
        THEN Consume(buf, len, totalPacketLen).len ELSE len,
     temp |-> ts.temp, count_entered |-> ts.count_entered,
     count_exit |-> ts.count_exit, raised |-> ts.raised, magicOK |-> 1,
     ret |-> IF ts.raised # "none" THEN NoReturn
             ELSE [dataOK |-> ts.dataOK,
                   targetDetected |-> ts.targetDetected,
                   frameNumber |-> frameNumber,
                   targetObj |-> ts.targetObj, pointObj |-> ts.pointObj],
     discarded |-> discarded, idX |-> ts.idX,
     totalPacketLen |-> totalPacketLen, numTLVs |-> numTLVs,
     tlvLog |-> ts.tlvLog]

\* faulty variant of DecodeTlvs: the counters are locals that start at 0 in
\* every call
DecodeTlvsLocalCounters(buf, len, tracker, discarded, totalPacketLen, frameNumber, numTLVs) ==
    DecodeResult(buf, len, discarded, totalPacketLen, frameNumber, numTLVs,
        TlvLoop(buf, frameNumber, numTLVs,
            [idX |-> headerLengthInBytes, tlv_type |-> 0, tlv_length |-> 0,
             tlv_bound |-> FALSE, dataOK |-> 0, targetDetected |-> 0,
             pointObj |-> EmptyPointObj, targetObj |-> EmptyTargetObj,
             temp |-> tracker.temp, count_entered |-> 0, count_exit |-> 0,
             raised |-> "none", tlvLog |-> <<>>]))

\* lines 163-329: the header fields, then the TLV loop from idX = 52
DecodeTlvs(buf, len, tracker, discarded, totalPacketLen, frameNumber, numTLVs) ==
    DecodeResult(buf, len, discarded, totalPacketLen, frameNumber, numTLVs,
        TlvLoop(buf, frameNumber, numTLVs,
            [idX |-> headerLengthInBytes, tlv_type |-> 0, tlv_length |-> 0,
             tlv_bound |-> FALSE, dataOK |-> 0, targetDetected |-> 0,
             pointObj |-> EmptyPointObj, targetObj |-> EmptyTargetObj,
             temp |-> tracker.temp, count_entered |-> tracker.count_entered,
             count_exit |-> tracker.count_exit, raised |-> "none",
             tlvLog |-> <<>>]))

\* lines 156-341: header, TLV records, removal of the frame
Decode(buf, len, tracker, discarded) ==
    DecodeTlvs(buf, len, tracker, discarded,
        U32(buf, totalPacketLenOffset), U32(buf, totalPacketLenOffset + 4),
        U16(buf, headerLengthInBytes - 4))

\* lines 145-156 on the buffer d left by the removal of leading bytes
AfterDiscard(tracker, appendedLen, d) ==
    IF MagicOK(d.buf, d.len)
    THEN Decode(d.buf, d.len, tracker, appendedLen - d.len)
    ELSE NoData(d.buf, d.len, tracker, appendedLen - d.len)

\* lines 131-143 with the marker offsets found
AfterSearch(tracker, a, startIdx) ==
    IF startIdx = {} THEN NoData(a.buf, a.len, tracker, 0)
    ELSE AfterDiscard(tracker, a.len,
            DiscardBefore(a.buf, a.len, SetMin(startIdx)))

\* lines 118-343 on the buffer a left by the append
AfterAppend(tracker, a, strict) ==
    IF ~(a.len > minSearchLength) THEN NoData(a.buf, a.len, tracker, 0)
    ELSE IF strict /\ ShortCandidate(a.buf)
    THEN [NoData(a.buf, a.len, tracker, 0) EXCEPT !.raised = "ValueError"]
    ELSE AfterSearch(tracker, a, StartIdx(a.buf))

\* line 114 with the global byteBufferLength unbound: the port has been
\* read (line 109), NameError leaves the call, nothing else has changed
UnboundGlobals(st) ==
    [NoData(st.byteBuffer, st.byteBufferLength, st, 0)
        EXCEPT !.raised = "NameError"]

\* process_frame on decoder state st = [bound, byteBuffer, byteBufferLength,
\* temp, count_entered, count_exit] with byteVec read from the port.
\* strict is the numpy build's treatment of a comparison of unequal shapes.
ProcessFrame(st, byteVec, strict) ==
    IF ~st.bound THEN UnboundGlobals(st)
    ELSE AfterAppend(st,
            AppendChunk(st.byteBuffer, st.byteBufferLength, byteVec), strict)

(***************************************************************************)
(* The data port: byte streams the sensor may send, built in the wire      *)
(* format of the decoder (little-endian integers, IEEE-754 floats as bit   *)
(* patterns).                                                              *)
(***************************************************************************)
LE16(n) == <<n % 256, (n \div 256) % 256>>
LE32(n) ==
    <<n % 256, (n \div 256) % 256, (n \div 65536) % 256,
      (n \div 16777216) % 256>>

RECURSIVE Concat(_)
Concat(seqs) == IF seqs = <<>> THEN <<>> ELSE Head(seqs) \o Concat(Tail(seqs))

Zeros(n) == [k \in 1..n |-> 0]

\* float32 values as sign and magnitude bits
f0p0 == [neg |-> 0, mag |-> 0]
f0p1 == [neg |-> 0, mag |-> 1036831949]
f0p2 == [neg |-> 0, mag |-> 1045220557]
f0p6 == [neg |-> 0, mag |-> 1058642330]
f1p0 == [neg |-> 0, mag |-> 1065353216]
f2p5 == [neg |-> 0, mag |-> 1075838976]
f10p0 == [neg |-> 0, mag |-> 1092616192]
f12p0 == [neg |-> 0, mag |-> 1094713344]
fNeg0p1 == [neg |-> 1, mag |-> 1036831949]
fNeg0p3 == [neg |-> 1, mag |-> 1050253722]

\* the 4 bytes of a float32
LEF32(w) ==
    <<w.mag % 256, (w.mag \div 256) % 256, (w.mag \div 65536) % 256,
      (w.mag \div 16777216) + 128 * w.neg>>

\* magic, version, platform, timeStamp, totalPacketLen, frameNumber,
\* subFrameNumber, chirpMargin, frameMargin, uartSentTime, trackProcessTime,
\* numTLVs, checksum
Header(totalPacketLen, frameNumber, numTLVs) ==
    magicWord \o LE32(1) \o LE32(0) \o LE32(0) \o LE32(totalPacketLen)
        \o LE32(frameNumber) \o Zeros(20) \o LE16(numTLVs) \o LE16(0)

Tlv(type, length, payload) == LE32(type) \o LE32(length) \o payload

Point(r, a, d, q) == LEF32(r) \o LEF32(a) \o LEF32(d) \o LEF32(q)
PointCloud(points) ==
    Tlv(MMWDEMO_UART_MSG_POINT_CLOUD_2D,
        tlvHeaderLengthInBytes + Len(Concat(points)), Concat(points))

Target(id, x, y) == LE32(id) \o LEF32(x) \o LEF32(y) \o Zeros(56)
TargetList(targets) ==
    Tlv(MMWDEMO_UART_MSG_TARGET_LIST_2D,
        tlvHeaderLengthInBytes + Len(Concat(targets)), Concat(targets))

Frame(frameNumber, tlvs) ==
    Header(headerLengthInBytes + Len(Concat(tlvs)), frameNumber, Len(tlvs))
        \o Concat(tlvs)

LitPoints == <<Point(f1p0, f0p1, f0p0, f10p0), Point(f2p5, fNeg0p1, f0p0, f12p0)>>
LitFrame == Frame(5, <<PointCloud(LitPoints)>>)
OnePointFrame == Frame(6, <<PointCloud(<<Point(f2p5, f0p1, f0p0, f12p0)>>)>>)
LongFrame ==
    Frame(7, <<PointCloud([k \in 1..13 |-> Point(f1p0, f0p1, f0p0, f10p0)])>>)
Garbage == <<9, 2, 1, 4, 7>>
TargetFrame(frameNumber, id, x) ==
    Frame(frameNumber, <<TargetList(<<Target(id, x, f1p0)>>)>>)

StreamIds ==
    {"lit", "long", "two", "sync", "unknown", "malformed", "truncated",
     "badid", "enter", "exit", "zero", "half", "flood", "scenario",
     "zerolen", "carry", "pair", "stuck"}

LitStream == LitFrame
LongStream == LongFrame
TwoStream == LitFrame \o OnePointFrame
SyncStream ==
    TargetFrame(19, 1, fNeg0p1) \o Garbage \o TargetFrame(20, 1, f0p2)
UnknownStream ==
    Frame(8, <<Tlv(9, 12, <<1, 2, 3, 4>>), PointCloud(LitPoints)>>)
MalformedStream ==
    Frame(9, <<Tlv(MMWDEMO_UART_MSG_POINT_CLOUD_2D, 30,
                   Point(f1p0, f0p1, f0p0, f10p0) \o <<1, 2, 3, 4, 5, 6>>),
               Tlv(MMWDEMO_UART_MSG_TARGET_INDEX_2D, 10, <<0, 0>>)>>)
TruncatedStream ==
    Header(60, 10, 1) \o LE32(MMWDEMO_UART_MSG_POINT_CLOUD_2D) \o LE32(40)
        \o LitFrame
BadIdStream == TargetFrame(12, 9, f0p2)
EnterStream ==
    TargetFrame(18, 1, fNeg0p3) \o TargetFrame(19, 1, fNeg0p1)
        \o TargetFrame(20, 1, f0p2)
ExitStream ==
    TargetFrame(19, 2, f0p2) \o TargetFrame(20, 2, fNeg0p1)
        \o TargetFrame(21, 2, f0p2)
ZeroStream ==
    TargetFrame(20, 3, f0p2) \o TargetFrame(39, 3, f0p0)
        \o TargetFrame(40, 3, fNeg0p1)
HalfStream ==
    Frame(20, <<TargetList(<<Target(1, fNeg0p1, f1p0), Target(1, f0p2, f1p0)>>),
                Tlv(MMWDEMO_UART_MSG_POINT_CLOUD_2D, 0, <<>>)>>)
\* the lengths of the header and of the record are smaller than the payload
ScenarioStream ==
    Header(60, 5, 1)
        \o Tlv(MMWDEMO_UART_MSG_POINT_CLOUD_2D, 24, Concat(LitPoints))
\* a frame whose header declares a totalPacketLen of 0
ZeroLenStream ==
    Header(0, 11, 1) \o PointCloud(<<Point(f2p5, f0p1, f0p0, f12p0)>>)
\* one target seen at two window boundaries
CarryStream == TargetFrame(20, 4, f0p2) \o TargetFrame(40, 4, fNeg0p1)
\* two targets that cross in opposite directions in the same window
PairStream ==
    Frame(19, <<TargetList(<<Target(1, fNeg0p1, f1p0),
                             Target(2, f0p2, f1p0)>>)>>)
        \o Frame(20, <<TargetList(<<Target(1, f0p2, f1p0),
                                    Target(2, fNeg0p1, f1p0)>>)>>)
\* a valid frame behind a frame whose header declares a totalPacketLen of 0
StuckStream == ZeroLenStream \o LitFrame
FloodStream == Zeros(32763) \o <<2, 1, 4, 3>> \o Zeros(233)

Stream(id) ==
    CASE id = "lit" -> LitStream
      [] id = "long" -> LongStream
      [] id = "two" -> TwoStream
      [] id = "sync" -> SyncStream
      [] id = "unknown" -> UnknownStream
      [] id = "malformed" -> MalformedStream
      [] id = "truncated" -> TruncatedStream
      [] id = "badid" -> BadIdStream
      [] id = "enter" -> EnterStream
      [] id = "exit" -> ExitStream
      [] id = "zero" -> ZeroStream
      [] id = "half" -> HalfStream
      [] id = "flood" -> FloodStream
      [] id = "scenario" -> ScenarioStream
      [] id = "zerolen" -> ZeroLenStream
      [] id = "carry" -> CarryStream
      [] id = "pair" -> PairStream
      [] id = "stuck" -> StuckStream

\* the sizes data_port.in_waiting takes: these, or all that is left
ChunkSizes == {0, 1, 17, 21, 60, 128, 32767}
MaxCalls == 4

(***************************************************************************)
(* State.                                                                  *)
(***************************************************************************)
VARIABLES
    bound,              \* the globals of line 86 and temp are bound
    byteBuffer,         \* written prefix of the array (line 13)
    byteBufferLength,   \* line 14
    count_entered,      \* line 16
    count_exit,         \* line 17
    temp,               \* line 18
    port,               \* [id, pos]: the stream and how much of it was read
    last,               \* what the last call did and returned
    emitted,            \* the returns of the calls that decoded a frame
    calls               \* number of calls made

vars ==
    <<bound, byteBuffer, byteBufferLength, count_entered, count_exit, temp, port,
      last, emitted, calls>>

DecoderState ==
    [bound |-> bound, byteBuffer |-> byteBuffer, byteBufferLength |-> byteBufferLength,
     temp |-> temp, count_entered |-> count_entered, count_exit |-> count_exit]

\* the decoder after __init__, lines 12-18: the attributes hold the
\* values below, the globals process_frame uses are unbound
InitState ==
    [bound |-> FALSE, byteBuffer |-> <<>>, byteBufferLength |-> 0,
     temp |-> [i \in 0..(numTempKeys - 1) |-> <<>>],
     count_entered |-> 0, count_exit |-> 0]

\* the decoder once the globals are bound to the values of __init__
BoundState == [InitState EXCEPT !.bound = TRUE]

\* what a call did (r) on the state it found (st) with byteCount new bytes
CallRecord(st, byteCount, r) ==
    [byteCount |-> byteCount, preLength |-> st.byteBufferLength,
     preTemp |-> st.temp, preEntered |-> st.count_entered,
     preExit |-> st.count_exit, raised |-> r.raised, magicOK |-> r.magicOK,
     ret |-> r.ret, discarded |-> r.discarded, idX |-> r.idX,
     totalPacketLen |-> r.totalPacketLen, numTLVs |-> r.numTLVs,
     tlvLog |-> r.tlvLog]

Init ==
    /\ bound = InitState.bound
    /\ byteBuffer = InitState.byteBuffer
    /\ byteBufferLength = InitState.byteBufferLength
    /\ count_entered = InitState.count_entered
    /\ count_exit = InitState.count_exit
    /\ temp = InitState.temp
    /\ port \in [id : StreamIds, pos : {0}]
    /\ last = CallRecord(InitState, 0, NoData(<<>>, 0, InitState, 0))
    /\ emitted = <<>>
    /\ calls = 0

Remaining == Len(Stream(port.id)) - port.pos

\* the next n bytes of the stream
ReadPort(n) == SubSeq(Stream(port.id), port.pos + 1, port.pos + n)

\* the decoder and the call record after a call that did r
Returned(n, r) ==
    /\ byteBuffer' = r.byteBuffer
    /\ byteBufferLength' = r.byteBufferLength
    /\ temp' = r.temp
    /\ count_entered' = r.count_entered
    /\ count_exit' = r.count_exit
    /\ last' = CallRecord(DecoderState, n, r)
    /\ emitted' = IF r.magicOK = 1 /\ r.raised = "none"
                  THEN Append(emitted, r.ret) ELSE emitted

\* the program that loads the module binds the module-level state that
\* line 86 names, before its first call of process_frame
BindGlobals ==
    /\ ~bound
    /\ calls = 0
    /\ bound' = BoundState.bound
    /\ byteBuffer' = BoundState.byteBuffer
    /\ byteBufferLength' = BoundState.byteBufferLength
    /\ temp' = BoundState.temp
    /\ count_entered' = BoundState.count_entered
    /\ count_exit' = BoundState.count_exit
    /\ UNCHANGED <<port, last, emitted, calls>>

\* one call of process_frame: data_port.read(data_port.in_waiting) hands
\* over the next n bytes of the stream.  The two numpy behaviours differ
\* only when a marker candidate lies in the last 7 cells of the array.
Ingest(n, strict) ==
    /\ calls < MaxCalls
    /\ n <= Remaining
    /\ strict =>
          /\ bound
          /\ ShortCandidate(
                AppendChunk(byteBuffer, byteBufferLength, ReadPort(n)).buf)
    /\ Returned(n, ProcessFrame(DecoderState, ReadPort(n), strict))
    /\ port' = [port EXCEPT !.pos = port.pos + n]
    /\ calls' = calls + 1
    /\ bound' = bound

Next ==
    \/ BindGlobals
    \/ \E n \in ChunkSizes \cup {Remaining} : \E strict \in BOOLEAN :
          Ingest(n, strict)

Spec == Init /\ [][Next]_vars

TypeOK ==
    /\ Len(byteBuffer) = byteBufferLength
    /\ byteBufferLength \in 0..maxBufferSize

(***************************************************************************)
(* What feeding a stream in one piece to a fresh decoder returns.          *)
(***************************************************************************)
Whole(bytes) == ProcessFrame(BoundState, bytes, FALSE)
AllFed == port.pos = Len(Stream(port.id))
\* the returns that carry decoded records
Decoded(rets) ==
    SelectSeq(rets, LAMBDA r : r.dataOK = 1 \/ r.targetDetected = 1)

\* the decoder holds what the call r left and has returned r's frame only
SameAs(r) ==
    /\ Decoded(emitted) = <<r.ret>>
    /\ byteBufferLength = r.byteBufferLength
    /\ temp = r.temp
    /\ count_entered = r.count_entered
    /\ count_exit = r.count_exit

\* C1: fragmentation invariance.  However a single valid frame is cut into
\* chunks, once all of it was fed exactly one call has returned decoded
\* records, they are those of the one-chunk run, and the buffer and the
\* tracker are as after the one-chunk run.  Stated for the decoder whose
\* globals are bound: with them unbound every split and the one-chunk run
\* alike end in NameError and return no frame.
FragmentationInvariance ==
    (bound /\ port.id \in {"lit", "long"} /\ AllFed)
    => SameAs(Whole(Stream(port.id)))

(***************************************************************************)
(* Expected returns of the frames of the streams.                          *)
(***************************************************************************)
LitRet ==
    [dataOK |-> 1, targetDetected |-> 0, frameNumber |-> 5,
     targetObj |-> EmptyTargetObj,
     pointObj |-> [numObj |-> 2, range |-> <<f1p0, f2p5>>,
                   azimuth |-> <<f0p1, fNeg0p1>>, doppler |-> <<f0p0, f0p0>>,
                   snr |-> <<f10p0, f12p0>>]]
OnePointRet ==
    [dataOK |-> 1, targetDetected |-> 0, frameNumber |-> 6,
     targetObj |-> EmptyTargetObj,
     pointObj |-> [numObj |-> 1, range |-> <<f2p5>>, azimuth |-> <<f0p1>>,
                   doppler |-> <<f0p0>>, snr |-> <<f12p0>>]]
TargetRet(frameNumber, id, x, entered, exited) ==
    [dataOK |-> 0, targetDetected |-> 1, frameNumber |-> frameNumber,
     pointObj |-> EmptyPointObj,
     targetObj |-> [frameNumber |-> frameNumber, target_ID |-> <<id>>,
                    posX |-> <<x>>, posY |-> <<f1p0>>, velX |-> <<f0p0>>,
                    velY |-> <<f0p0>>, Num_Targets |-> 1,
                    Ppl_entered |-> entered, Ppl_exited |-> exited]]

\* the bytes the last call stored, and the bytes it had buffered once the
\* leading garbage was dropped
Stored ==
    IF last.raised # "NameError"
        /\ last.preLength + last.byteCount < maxBufferSize
    THEN last.byteCount ELSE 0
Buffered == last.preLength + Stored - last.discarded

\* C2: a call returns the first buffered frame only and removes only that
\* frame; the frames behind it stay buffered and are returned by the
\* following calls in arrival order.
OneFramePerCall ==
    /\ Buffered - byteBufferLength \in {0, last.totalPacketLen}
    /\ port.id = "two" =>
        /\ Decoded(emitted) \in {<<>>, <<LitRet>>, <<LitRet, OnePointRet>>}
        /\ (last.magicOK = 1 /\ Buffered = Len(TwoStream)) =>
              /\ last.ret = LitRet
              /\ byteBuffer = OnePointFrame
        /\ (AllFed /\ last.preLength = Len(OnePointFrame)
                /\ last.byteCount = 0) =>
              /\ last.ret = OnePointRet
              /\ Decoded(emitted) = <<LitRet, OnePointRet>>
              /\ byteBufferLength = 0
TwoFramesThenOne ==
    /\ port.id = "two"
    /\ calls = 2
    /\ last.preLength = Len(OnePointFrame)
    /\ last.byteCount = 0
    /\ emitted = <<LitRet, OnePointRet>>

\* C3: a call that fails partway leaves the counters and every sample
\* history as it found them.
TrackerAllOrNothing ==
    last.raised # "none" =>
        /\ temp = last.preTemp
        /\ count_entered = last.preEntered
        /\ count_exit = last.preExit

\* the step ended as the call r did
EndedAs(r) ==
    /\ byteBuffer' = r.byteBuffer
    /\ byteBufferLength' = r.byteBufferLength
    /\ temp' = r.temp
    /\ count_entered' = r.count_entered
    /\ count_exit' = r.count_exit
    /\ last'.ret = r.ret
    /\ last'.raised = r.raised

\* C4: overflow safety.  The buffered length stays within 0..maxBufferSize,
\* and a call whose chunk would overflow the buffer ends in the state a
\* call with no bytes would have ended in.
OverflowSafety ==
    /\ [](byteBufferLength \in 0..maxBufferSize
            /\ Len(byteBuffer) = byteBufferLength)
    /\ [][byteBufferLength + (port'.pos - port.pos) > maxBufferSize =>
            \E strict \in BOOLEAN :
                EndedAs(ProcessFrame(DecoderState, <<>>, strict))]_vars
ChunkDropped ==
    /\ bound
    /\ last.preLength + last.byteCount > maxBufferSize
    /\ last.byteCount > 0
    /\ byteBufferLength = last.preLength

\* C5: sync recovery.  With garbage in front of a complete frame, the call
\* drops exactly the bytes before the first full marker, returns that
\* frame, and the counters are those of the frames alone.
SyncRecovery ==
    (port.id = "sync" /\ AllFed
        /\ last.preLength + Stored = Len(Garbage) + Len(TargetFrame(20, 1, f0p2)))
    =>  /\ last.discarded = Len(Garbage)
        /\ last.ret = TargetRet(20, 1, f0p2, 1, 0)
        /\ byteBufferLength = 0
        /\ count_entered = 1
        /\ count_exit = 0
GarbageDropped ==
    /\ port.id = "sync"
    /\ last.discarded = Len(Garbage)
    /\ last.ret.targetDetected = 1
    /\ count_entered = 1

\* C6: a record of unknown type moves the cursor by its declared length,
\* so the records behind it are read where they are.
UnknownTlvSkipped ==
    \A k \in 1..Len(last.tlvLog) :
        last.tlvLog[k].type \notin {MMWDEMO_UART_MSG_POINT_CLOUD_2D,
                                    MMWDEMO_UART_MSG_TARGET_LIST_2D,
                                    MMWDEMO_UART_MSG_TARGET_INDEX_2D}
        => last.tlvLog[k].end = last.tlvLog[k].start + last.tlvLog[k].length

\* C7: a PointCloud, TargetList or TargetIndex record moves the cursor by
\* its declared length.
RecordSizeExactness ==
    \A k \in 1..Len(last.tlvLog) :
        last.tlvLog[k].type \in {MMWDEMO_UART_MSG_POINT_CLOUD_2D,
                                 MMWDEMO_UART_MSG_TARGET_LIST_2D,
                                 MMWDEMO_UART_MSG_TARGET_INDEX_2D}
        => last.tlvLog[k].end = last.tlvLog[k].start + last.tlvLog[k].length

\* C8: a record that claims bytes beyond those of the buffered frame aborts
\* the frame: nothing is returned, the buffer is emptied, the tracker is
\* untouched.
TruncatedAborts ==
    (\E k \in 1..Len(last.tlvLog) :
        /\ last.tlvLog[k].type \in {MMWDEMO_UART_MSG_POINT_CLOUD_2D,
                                    MMWDEMO_UART_MSG_TARGET_LIST_2D,
                                    MMWDEMO_UART_MSG_TARGET_INDEX_2D}
        /\ last.tlvLog[k].start
              + Max(tlvHeaderLengthInBytes, last.tlvLog[k].length)
                > Min(Buffered, last.totalPacketLen))
    =>  /\ last.ret = NoReturn
        /\ byteBufferLength = 0
        /\ temp = last.preTemp
        /\ count_entered = last.preEntered
        /\ count_exit = last.preExit

\* C9: no call ends in an exception.
NoExceptionEscapes == last.raised = "none"

\* C10: crossing classification.  The samples -0.3, -0.1, 0.2 of one window
\* count one entry and clear the history; 0.2, -0.1 count one exit.  In
\* general, at a window boundary the history of the frame's target with its
\* new sample is searched for the first change between negative and
\* non-negative; the sample before it decides: negative counts an entry,
\* non-negative an exit.  Without a change, and off the boundary, nothing is
\* counted and the sample stays in the history.
CrossingClassification ==
    /\ (port.id = "enter" /\ last.ret.targetDetected = 1
            /\ last.ret.frameNumber = 20
            /\ last.preTemp[1] = <<fNeg0p3, fNeg0p1>>)
        =>  /\ count_entered = last.preEntered + 1
            /\ count_exit = last.preExit
            /\ temp[1] = <<>>
    /\ (port.id = "exit" /\ last.ret.targetDetected = 1
            /\ last.ret.frameNumber = 20 /\ last.preTemp[2] = <<f0p2>>)
        =>  /\ count_exit = last.preExit + 1
            /\ count_entered = last.preEntered
            /\ temp[2] = <<>>
    /\ (last.ret.targetDetected = 1 /\ last.ret.targetObj.Num_Targets = 1
            /\ last.ret.targetObj.target_ID[1] \in DOMAIN temp
            /\ InBand(last.ret.targetObj.posX[1]))
        =>  LET id == last.ret.targetObj.target_ID[1]
                hist == Append(last.preTemp[id], last.ret.targetObj.posX[1])
                changes ==
                    {k \in 1..(Len(hist) - 1) :
                        F32Negative(hist[k]) # F32Negative(hist[k + 1])}
            IN  IF last.ret.frameNumber % 20 # 0 \/ changes = {}
                THEN /\ count_entered = last.preEntered
                     /\ count_exit = last.preExit
                     /\ temp[id] = hist
                ELSE /\ temp[id] = <<>>
                     /\ IF F32Negative(hist[SetMin(changes)])
                        THEN /\ count_entered = last.preEntered + 1
                             /\ count_exit = last.preExit
                        ELSE /\ count_entered = last.preEntered
                             /\ count_exit = last.preExit + 1
EnteredCounted ==
    /\ port.id = "enter"
    /\ last.ret.frameNumber = 20
    /\ last.preTemp[1] = <<fNeg0p3, fNeg0p1>>
    /\ count_entered = 1
    /\ count_exit = 0
    /\ temp[1] = <<>>

\* C11: the occupancy counters never decrease: no call leaves count_entered
\* or count_exit below the value it found.
CountersMonotone ==
    [][count_entered' >= count_entered /\ count_exit' >= count_exit]_vars
CountKeptByLaterFrame ==
    /\ port.id = "exit"
    /\ last.ret.targetDetected = 1
    /\ last.ret.frameNumber = 21
    /\ last.preExit = 1
    /\ count_exit = 1

\* the bytes a step hands to process_frame
Chunk == SubSeq(Stream(port.id), port.pos + 1, port'.pos)

\* the step accumulated acc and did nothing else
AccumulatedOnly(acc) ==
    /\ last'.ret = NoReturn
    /\ last'.raised = "none"
    /\ byteBuffer' = acc
    /\ byteBufferLength' = Len(acc)
    /\ temp' = temp
    /\ count_entered' = count_entered
    /\ count_exit' = count_exit

\* acc fits the buffer, has no bytes in front of its frame, and holds less
\* than a header or less than the frame its header declares
TooFewBytes(acc) ==
    /\ Len(acc) < maxBufferSize
    /\ \A s \in StartIdx(acc) : s = 0
    /\ \/ Len(acc) < headerLengthInBytes
       \/ Len(acc) < U32(acc, totalPacketLenOffset)

\* C12: a call that finds too few bytes buffered for a header or for the
\* declared frame returns nothing, leaves the counters and the sample
\* histories as they were, and leaves in the buffer the bytes it held
\* followed by the new ones.  Stated for the decoder whose globals are
\* bound.
NoDataAccumulatesOnly ==
    [][(bound /\ TooFewBytes(byteBuffer \o Chunk))
        => AccumulatedOnly(byteBuffer \o Chunk)]_vars

\* C13: a call whose chunk would take the buffer beyond maxBufferSize tells
\* its caller so: it does not end like a call that had too few bytes,
\* which returns nothing and raises nothing.
OverflowReported ==
    (last.byteCount > 0 /\ last.preLength + last.byteCount > maxBufferSize)
    => (last.ret # NoReturn \/ last.raised # "none")

\* the stream was handed to a fresh decoder in one call
FedWhole(id) ==
    /\ port.id = id
    /\ calls = 1
    /\ last.byteCount = Len(Stream(id))

\* C14: the marker, a header with frameNumber 5, numTLVs 1 and
\* totalPacketLen 60, and a PointCloud record of length 24 with two points,
\* fed in one call to a fresh decoder, return frame 5 with those two points.
LiteralScenario ==
    FedWhole("scenario") =>
        /\ last.ret.dataOK = 1
        /\ last.ret.frameNumber = 5
        /\ last.ret.pointObj = LitRet.pointObj

\* What the decoder with bound globals makes of the scenario: with the
\* lengths two points take (record length 40, totalPacketLen 92) the call
\* returns frame 5 with the two points as injected and empties the buffer;
\* with the lengths 24 and 60 it returns the first point only and keeps the
\* 32 bytes behind the declared frame.
LiteralScenarioSized ==
    /\ (bound /\ FedWhole("lit")) =>
        /\ last.ret = LitRet
        /\ byteBufferLength = 0
    /\ (bound /\ FedWhole("scenario")) =>
        /\ last.ret.dataOK = 1
        /\ last.ret.frameNumber = 5
        /\ last.ret.pointObj =
              [numObj |-> 1, range |-> <<f1p0>>, azimuth |-> <<f0p1>>,
               doppler |-> <<f0p0>>, snr |-> <<f10p0>>]
        /\ byteBuffer = SubSeq(ScenarioStream, 61, Len(ScenarioStream))
TwoPointsReturned ==
    /\ FedWhole("lit")
    /\ last.magicOK = 1
    /\ last.ret.pointObj.numObj = 2
    /\ last.ret.pointObj.azimuth = <<f0p1, fNeg0p1>>

\* C15: the chunk of a call is dropped, the buffer staying as it was, if
\* and only if the buffered length plus the chunk exceeds maxBufferSize;
\* otherwise, also when they add up to maxBufferSize, the chunk is appended
\* whole and in order.  Stated on the calls that, with the globals bound,
\* neither drop leading bytes nor read a frame.
AppendThreshold ==
    [][(/\ bound
        /\ calls' > calls
        /\ last'.magicOK = 0
        /\ last'.discarded = 0) =>
        IF byteBufferLength + Len(Chunk) > maxBufferSize
        THEN byteBuffer' = byteBuffer /\ byteBufferLength' = byteBufferLength
        ELSE /\ byteBuffer' = byteBuffer \o Chunk
             /\ byteBufferLength' = byteBufferLength + Len(Chunk)]_vars

\* C16: a call reads a frame only if the header at the front of the buffer
\* declares a totalPacketLen above 0 and that many bytes are buffered.
\* Stated on the calls that have a whole header buffered.
ReadyOnlyWhenComplete ==
    (last.magicOK = 1 /\ Buffered >= headerLengthInBytes)
    => (last.totalPacketLen > 0 /\ Buffered >= last.totalPacketLen)

\* C17: with fewer than 52 bytes buffered from the marker on, a call reads
\* no header field, decodes nothing and removes nothing.
HeaderNeedsAllBytes ==
    Buffered < headerLengthInBytes
    => (last.magicOK = 0 /\ byteBufferLength = Buffered)

\* C18: after a call that read a frame, the buffered length is the length
\* before the removal minus the frame's totalPacketLen, the buffer holds the
\* bytes that followed the frame, in order, and every cell from the new
\* length on is zero.
ConsumeShifts ==
    (last.magicOK = 1 /\ last.raised = "none") =>
        /\ byteBufferLength = Buffered - last.totalPacketLen
        /\ SubSeq(byteBuffer, 1, byteBufferLength)
              = SubSeq(Stream(port.id), port.pos - byteBufferLength + 1,
                       port.pos)
        /\ \A i \in byteBufferLength..(Len(byteBuffer) - 1) :
              At(byteBuffer, i) = 0
FrameShiftedOut ==
    /\ port.id = "two"
    /\ last.magicOK = 1
    /\ Buffered = Len(TwoStream)
    /\ last.totalPacketLen = Len(LitFrame)
    /\ byteBufferLength = Len(OnePointFrame)
    /\ byteBuffer = OnePointFrame

\* the payload of record e is not a whole number of elements
Malformed(e) ==
    \/ /\ e.type = MMWDEMO_UART_MSG_POINT_CLOUD_2D
       /\ (e.length - tlvHeaderLengthInBytes) % pointLengthInBytes # 0
    \/ /\ e.type = MMWDEMO_UART_MSG_TARGET_LIST_2D
       /\ (e.length - tlvHeaderLengthInBytes) % targetLengthInBytes # 0

\* C19: a PointCloud or TargetList record whose payload is not a whole
\* number of elements is rejected: the cursor moves on by its declared
\* length, and if every record of its type in the frame is such a record
\* the frame carries no points (no targets, and the tracker is untouched).
MalformedRejected ==
    /\ \A k \in 1..Len(last.tlvLog) :
          Malformed(last.tlvLog[k]) =>
              last.tlvLog[k].end
                  = last.tlvLog[k].start + last.tlvLog[k].length
    /\ (\A k \in 1..Len(last.tlvLog) :
            last.tlvLog[k].type = MMWDEMO_UART_MSG_POINT_CLOUD_2D
                => Malformed(last.tlvLog[k]))
        => last.ret.pointObj = EmptyPointObj
    /\ (\A k \in 1..Len(last.tlvLog) :
            last.tlvLog[k].type = MMWDEMO_UART_MSG_TARGET_LIST_2D
                => Malformed(last.tlvLog[k]))
        => /\ last.ret.targetObj = EmptyTargetObj
           /\ temp = last.preTemp
           /\ count_entered = last.preEntered
           /\ count_exit = last.preExit

\* C20: a frame whose cursor after its last record is not at
\* totalPacketLen is not returned as a decoded frame.  Stated on the calls
\* that read a frame of at least a header.
CursorMeetsLength ==
    (/\ last.magicOK = 1
     /\ last.raised = "none"
     /\ last.totalPacketLen >= headerLengthInBytes
     /\ last.idX # last.totalPacketLen)
    => (last.ret.dataOK = 0 /\ last.ret.targetDetected = 0)

\* C21: a frame at a window boundary leaves the history of its target
\* empty, with or without a crossing, so that a sample of one window never
\* takes part in a crossing counted in a later one: of the samples 0.2 at
\* frame 20 and -0.1 at frame 40 no crossing is counted.
HistoryClearedAtBoundary ==
    /\ (/\ last.ret.targetDetected = 1
         /\ last.ret.frameNumber % windowFrames = 0
         /\ last.ret.targetObj.Num_Targets = 1
         /\ last.ret.targetObj.target_ID[1] \in DOMAIN temp
         /\ InBand(last.ret.targetObj.posX[1]))
        => temp[last.ret.targetObj.target_ID[1]] = <<>>
    /\ port.id = "carry" => (count_entered = 0 /\ count_exit = 0)

\* the targets of t whose history, with the new sample, holds a crossing
Crossers(t, histories) ==
    {k \in 1..t.Num_Targets :
        ZeroCrossingSites(Append(histories[t.target_ID[k]], t.posX[k])) # {}}

\* t lists in-band targets of distinct ids the tracker knows
DistinctInBand(t) ==
    /\ \A k \in 1..t.Num_Targets :
          t.target_ID[k] \in DOMAIN temp /\ InBand(t.posX[k])
    /\ \A j, k \in 1..t.Num_Targets :
          t.target_ID[j] = t.target_ID[k] => j = k

\* C22: a frame at a window boundary evaluates every target it lists: k
\* targets whose histories hold a crossing raise count_entered +
\* count_exit by k.
AllTargetsEvaluated ==
    (/\ last.ret.targetDetected = 1
     /\ last.ret.frameNumber % windowFrames = 0
     /\ DistinctInBand(last.ret.targetObj))
    => count_entered + count_exit
          = last.preEntered + last.preExit
              + Cardinality(Crossers(last.ret.targetObj, last.preTemp))

\* a call without new bytes left the decoder as it found it: every later
\* call without new bytes does the same
Idle ==
    /\ calls > 0
    /\ last.byteCount = 0
    /\ byteBufferLength = last.preLength
    /\ temp = last.preTemp
    /\ count_entered = last.preEntered
    /\ count_exit = last.preExit

\* C23: the decoder does not get stuck.  Once a valid frame has been fed
\* behind a frame that declares a totalPacketLen of 0, the decoder comes to
\* rest only after it has returned the valid frame.  Stated for the decoder
\* whose globals are bound.
NeverStuck ==
    (bound /\ port.id = "stuck" /\ AllFed /\ Idle)
    => \E k \in 1..Len(emitted) : emitted[k] = LitRet

====
